---- MODULE Spec2Model ----
(***************************************************************************)
(* Product Search Dashboard (src/app.py): the catalog loader load_data,    *)
(* the filter/sort helper filter_data, the search step of the page script  *)
(* and the summary figures, as a state machine whose steps are the runs of *)
(* the Streamlit script.                                                    *)
(*                                                                         *)
(* A Python str is a sequence of one-character strings, so that substring  *)
(* tests, case folding, regular-expression matching and lexicographic      *)
(* comparison are computed rather than assumed.  A DataFrame is the        *)
(* sequence of its rows; the row labels (the index) are not modelled.      *)
(***************************************************************************)
EXTENDS Integers, Sequences, FiniteSets, TLC

-----------------------------------------------------------------------------
(* Characters and strings                                                  *)

\* The printable ASCII characters in code-point order: 32 .. 95 and 97 .. 126
\* (the grave accent, 96, cannot be written in a string of this language and
\* occurs nowhere in the program's data).
AsciiLow ==
    <<" ", "!", "\"", "#", "$", "%", "&", "'", "(", ")", "*", "+", ",", "-", ".", "/",
      "0", "1", "2", "3", "4", "5", "6", "7", "8", "9", ":", ";", "<", "=", ">", "?",
      "@", "A", "B", "C", "D", "E", "F", "G", "H", "I", "J", "K", "L", "M", "N", "O",
      "P", "Q", "R", "S", "T", "U", "V", "W", "X", "Y", "Z", "[", "\\", "]", "^", "_">>

AsciiHigh ==
    <<"a", "b", "c", "d", "e", "f", "g", "h", "i", "j", "k", "l", "m", "n", "o", "p",
      "q", "r", "s", "t", "u", "v", "w", "x", "y", "z", "{", "|", "}", "~">>

AsciiChars == {AsciiLow[i] : i \in 1..Len(AsciiLow)} \cup {AsciiHigh[i] : i \in 1..Len(AsciiHigh)}

\* ord(c): the code point of a character.
OrdTable ==
    [c \in AsciiChars |->
        IF \E i \in 1..Len(AsciiLow) : AsciiLow[i] = c
        THEN 31 + (CHOOSE i \in 1..Len(AsciiLow) : AsciiLow[i] = c)
        ELSE 96 + (CHOOSE i \in 1..Len(AsciiHigh) : AsciiHigh[i] = c)]

Ord(c) == OrdTable[c]

\* chr(n), for n other than 96.
Chr(n) == IF n <= 95 THEN AsciiLow[n - 31] ELSE AsciiHigh[n - 96]

\* The case folding of re.IGNORECASE (and of str.lower()) on ASCII.
LowerTable == [c \in AsciiChars |->
                 IF OrdTable[c] >= 65 /\ OrdTable[c] <= 90
                 THEN Chr(OrdTable[c] + 32) ELSE c]

Lower(c) == LowerTable[c]

\* Lexicographic "less than" on sequences of integers.
RECURSIVE SeqLess(_, _)
SeqLess(a, b) ==
    IF b = <<>> THEN FALSE
    ELSE IF a = <<>> THEN TRUE
    ELSE IF Head(a) # Head(b) THEN Head(a) < Head(b)
    ELSE SeqLess(Tail(a), Tail(b))

\* str.strip(): leading and trailing whitespace removed (the only whitespace
\* character of the alphabet is the space).
RECURSIVE LStrip(_)
LStrip(s) == IF s # <<>> /\ Head(s) = " " THEN LStrip(Tail(s)) ELSE s

RECURSIVE RStrip(_)
RStrip(s) ==
    IF s # <<>> /\ s[Len(s)] = " " THEN RStrip(SubSeq(s, 1, Len(s) - 1)) ELSE s

strip(s) == RStrip(LStrip(s))

-----------------------------------------------------------------------------
(* The dataset and the loader                                              *)

\* The nested dict; a dict keeps insertion order, so each level is a sequence
\* of (key, value) entries.
PRODUCTS == <<
    [key |-> <<"E", "l", "e", "c", "t", "r", "o", "n", "i", "c", "s">>,
     items |-> <<
         [key |-> <<"L", "a", "p", "t", "o", "p">>,
          details |-> [name |-> <<"L", "a", "p", "t", "o", "p">>,
                      price |-> 70000,
                      company |-> <<"D", "e", "l", "l">>,
                      last_updated |-> <<"2", "0", "2", "5", "-", "1", "0", "-", "1", "0">>]],
         [key |-> <<"S", "m", "a", "r", "t", "p", "h", "o", "n", "e">>,
          details |-> [name |-> <<"S", "m", "a", "r", "t", "p", "h", "o", "n", "e">>,
                      price |-> 30000,
                      company |-> <<"S", "a", "m", "s", "u", "n", "g">>,
                      last_updated |-> <<"2", "0", "2", "5", "-", "0", "9", "-", "1", "5">>]],
         [key |-> <<"E", "a", "r", "b", "u", "d", "s">>,
          details |-> [name |-> <<"E", "a", "r", "b", "u", "d", "s">>,
                      price |-> 2500,
                      company |-> <<"R", "e", "a", "l", "m", "e">>,
                      last_updated |-> <<"2", "0", "2", "5", "-", "0", "8", "-", "2", "0">>]]>>],
    [key |-> <<"A", "p", "p", "l", "i", "a", "n", "c", "e", "s">>,
     items |-> <<
         [key |-> <<"R", "e", "f", "r", "i", "g", "e", "r", "a", "t", "o", "r">>,
          details |-> [name |-> <<"R", "e", "f", "r", "i", "g", "e", "r", "a", "t", "o", "r">>,
                      price |-> 55000,
                      company |-> <<"L", "G">>,
                      last_updated |-> <<"2", "0", "2", "5", "-", "0", "9", "-", "2", "5">>]],
         [key |-> <<"W", "a", "s", "h", "i", "n", "g", " ", "M", "a", "c", "h", "i", "n", "e">>,
          details |-> [name |-> <<"W", "a", "s", "h", "i", "n", "g", " ", "M", "a", "c", "h", "i", "n", "e">>,
                      price |-> 45000,
                      company |-> <<"W", "h", "i", "r", "l", "p", "o", "o", "l">>,
                      last_updated |-> <<"2", "0", "2", "5", "-", "0", "7", "-", "1", "8">>]]>>],
    [key |-> <<"A", "c", "c", "e", "s", "s", "o", "r", "i", "e", "s">>,
     items |-> <<
         [key |-> <<"K", "e", "y", "b", "o", "a", "r", "d">>,
          details |-> [name |-> <<"K", "e", "y", "b", "o", "a", "r", "d">>,
                      price |-> 1200,
                      company |-> <<"L", "o", "g", "i", "t", "e", "c", "h">>,
                      last_updated |-> <<"2", "0", "2", "5", "-", "0", "8", "-", "0", "5">>]],
         [key |-> <<"M", "o", "u", "s", "e">>,
          details |-> [name |-> <<"M", "o", "u", "s", "e">>,
                      price |-> 800,
                      company |-> <<"H", "P">>,
                      last_updated |-> <<"2", "0", "2", "5", "-", "0", "7", "-", "3", "0">>]]>>]>>

IsDigit(c) == Ord(c) >= 48 /\ Ord(c) <= 57

DigitVal(c) == Ord(c) - 48

Number(s) ==
    IF Len(s) = 4
    THEN 1000 * DigitVal(s[1]) + 100 * DigitVal(s[2]) + 10 * DigitVal(s[3]) + DigitVal(s[4])
    ELSE 10 * DigitVal(s[1]) + DigitVal(s[2])

DaysInMonth(y, m) ==
    IF m \in {4, 6, 9, 11} THEN 30
    ELSE IF m # 2 THEN 31
    ELSE IF (y % 4 = 0 /\ y % 100 # 0) \/ y % 400 = 0 THEN 29 ELSE 28

\* Whether pd.to_datetime accepts the string as a YYYY-MM-DD date.
IsIsoDate(s) ==
    /\ Len(s) = 10
    /\ s[5] = "-" /\ s[8] = "-"
    /\ \A i \in {1, 2, 3, 4, 6, 7, 9, 10} : IsDigit(s[i])
    /\ Number(SubSeq(s, 6, 7)) \in 1..12
    /\ Number(SubSeq(s, 9, 10)) \in
           1..DaysInMonth(Number(SubSeq(s, 1, 4)), Number(SubSeq(s, 6, 7)))

\* The timestamp of a date the parse failed on: no value reaches the frame.
NaT == [year |-> 0, month |-> 0, day |-> 0]

\* pd.to_datetime on a YYYY-MM-DD string: the calendar date, at midnight.
to_datetime(s) ==
    IF IsIsoDate(s)
    THEN [year |-> Number(SubSeq(s, 1, 4)),
          month |-> Number(SubSeq(s, 6, 7)),
          day |-> Number(SubSeq(s, 9, 10))]
    ELSE NaT

\* One row of the frame: the item's own attributes (details.copy()), the
\* parsed date in place of the string, and the enclosing category.
Row(cat, details) ==
    [name |-> details.name,
     price |-> details.price,
     company |-> details.company,
     last_updated |-> to_datetime(details.last_updated),
     category |-> cat]

\* RowsOfItems with each item put in front of the rows built so far (the
\* items of a category in reverse order).
RECURSIVE RowsOfItemsReversed(_, _)
RowsOfItemsReversed(cat, items) ==
    IF items = <<>> THEN <<>>
    ELSE RowsOfItemsReversed(cat, Tail(items)) \o <<Row(cat, Head(items).details)>>

RECURSIVE RowsOfItems(_, _)
RowsOfItems(cat, items) ==
    IF items = <<>> THEN <<>>
    ELSE <<Row(cat, Head(items).details)>> \o RowsOfItems(cat, Tail(items))

RECURSIVE RowsOfCategories(_)
RowsOfCategories(products) ==
    IF products = <<>> THEN <<>>
    ELSE RowsOfItems(Head(products).key, Head(products).items)
             \o RowsOfCategories(Tail(products))

\* Whether every last_updated string of the dataset parses (otherwise
\* load_data raises and the page does not start).
DatesParse ==
    \A c \in 1..Len(PRODUCTS) : \A i \in 1..Len(PRODUCTS[c].items) :
        IsIsoDate(PRODUCTS[c].items[i].details.last_updated)

\* load_data(): the nested dict flattened, category by category and item by
\* item, in insertion order.
load_data == RowsOfCategories(PRODUCTS)

\* The columns of the frame load_data builds.
Columns == {"name", "price", "company", "last_updated", "category"}

-----------------------------------------------------------------------------
(* filter_data                                                             *)

\* Series.isin(values).
isin(v, values) == v \in values

\* between with inclusive="neither": both bounds excluded.
between_exclusive(p, left, right) == left < p /\ p < right

\* Series.between(left, right): inclusive="both" is the default.
between(p, left, right) == left <= p /\ p <= right

\* df[mask]: the rows whose mask entry is true, in the frame's order.
RECURSIVE BoolIndexFrom(_, _, _)
BoolIndexFrom(df, mask, i) ==
    IF i > Len(df) THEN <<>>
    ELSE (IF mask[i] THEN <<df[i]>> ELSE <<>>) \o BoolIndexFrom(df, mask, i + 1)

BoolIndex(df, mask) == BoolIndexFrom(df, mask, 1)

\* The mask of filter_data: category in the selection and price in the range.
FilterMask(df, categories, price_range) ==
    [i \in 1..Len(df) |->
        isin(df[i].category, categories)
            /\ between(df[i].price, price_range[1], price_range[2])]

\* Python's "<" on two strs: by code point, a proper prefix first.
RECURSIVE StrLessFrom(_, _, _)
StrLessFrom(a, b, i) ==
    IF i > Len(b) THEN FALSE
    ELSE IF i > Len(a) THEN TRUE
    ELSE IF a[i] # b[i] THEN Ord(a[i]) < Ord(b[i])
    ELSE StrLessFrom(a, b, i + 1)

StrLess(a, b) == StrLessFrom(a, b, 1)

\* "<" on two timestamps at midnight.
DateLess(a, b) ==
    SeqLess(<<a.year, a.month, a.day>>, <<b.year, b.month, b.day>>)

\* Whether row a's value in the sort column is less than row b's.
ValueLess(a, b, by) ==
    CASE by = "price" -> a.price < b.price
      [] by = "last_updated" -> DateLess(a.last_updated, b.last_updated)
      [] by = "name" -> StrLess(a.name, b.name)
      [] by = "company" -> StrLess(a.company, b.company)
      [] by = "category" -> StrLess(a.category, b.category)

\* Whether row a has to come before row b in the sorted frame.
Precedes(a, b, by, ascending) ==
    IF ascending THEN ValueLess(a, b, by) ELSE ValueLess(b, a, by)

InsertAt(order, p, x) ==
    SubSeq(order, 1, p - 1) \o <<x>> \o SubSeq(order, p, Len(order))

\* The orders (sequences of positions) of the first n rows of the frame in
\* which no row comes after one it has to precede: row n goes into a sorted
\* order of the rows before it, anywhere between the rows it has to follow
\* and the rows it has to precede.
RECURSIVE SortedOrders(_, _, _, _)
SortedOrders(frame, by, ascending, n) ==
    IF n = 0 THEN {<<>>}
    ELSE UNION {
           LET before == Cardinality({j \in 1..(n - 1) :
                             Precedes(frame[j], frame[n], by, ascending)})
               after == Cardinality({j \in 1..(n - 1) :
                             Precedes(frame[n], frame[j], by, ascending)})
           IN  {InsertAt(order, p, n) : p \in (before + 1)..(n - after)} :
           order \in SortedOrders(frame, by, ascending, n - 1)}

\* DataFrame.sort_values(by, ascending=ascending) with the default
\* kind="quicksort", which pandas documents as not stable: rows with equal
\* values may come out in any relative order, so every sorted arrangement of
\* the rows is a possible result.
sort_values(frame, by, ascending) ==
    {[k \in 1..Len(frame) |-> frame[order[k]]] :
        order \in SortedOrders(frame, by, ascending, Len(frame))}

\* filter_data sorting the frame it is given in place (sort_values with
\* inplace=True) before it selects the rows.
filter_data_inplace(df, categories, price_range, sort_by, asc) ==
    IF sort_by \notin Columns
    THEN {[status |-> "KeyError", input |-> df, out |-> <<>>]}
    ELSE {[status |-> "ok", input |-> sorted,
           out |-> BoolIndex(sorted, FilterMask(sorted, categories, price_range))] :
             sorted \in sort_values(df, sort_by, asc)}

\* filter_data skipping the sort when sort_by names no column.
filter_data_unvalidated(df, categories, price_range, sort_by, asc) ==
    IF sort_by \notin Columns
    THEN {[status |-> "ok", input |-> df,
           out |-> BoolIndex(df, FilterMask(df, categories, price_range))]}
    ELSE {[status |-> "ok", input |-> df, out |-> sorted] :
             sorted \in sort_values(
                 BoolIndex(df, FilterMask(df, categories, price_range)),
                 sort_by, asc)}

\* filter_data(df, categories, price_range, sort_by, ascending): the possible
\* outcomes, each with the frame passed in as the call leaves it (df[mask],
\* sort_values and reset_index all build new frames).  A sort_by that names
\* no column makes sort_values raise KeyError.
filter_data(df, categories, price_range, sort_by, asc) ==
    IF sort_by \notin Columns
    THEN {[status |-> "KeyError", input |-> df, out |-> <<>>]}
    ELSE {[status |-> "ok", input |-> df, out |-> sorted] :
             sorted \in sort_values(
                 BoolIndex(df, FilterMask(df, categories, price_range)),
                 sort_by, asc)}

-----------------------------------------------------------------------------
(* The search step                                                         *)

\* Among the characters a query is drawn from below, ".", "(", "*" and "["
\* have a special meaning in a regular expression; every other one stands for
\* itself.  The alphabet holds no ")" and no "]", so a "(" never finds its
\* closing parenthesis and a "[" never finds its closing bracket.

\* Whether re.compile(pat) raises re.error: an unterminated subpattern, an
\* unterminated character set, nothing to repeat, or a multiple repeat.
re_error(pat) ==
    \/ \E i \in 1..Len(pat) : pat[i] \in {"(", "["}
    \/ pat # <<>> /\ pat[1] = "*"
    \/ \E i \in 1..(Len(pat) - 1) : pat[i] = "*" /\ pat[i + 1] = "*"

\* Whether a pattern character matches a character under re.IGNORECASE.
AtomMatches(atom, c) == atom = "." \/ Lower(atom) = Lower(c)

\* Whether the pattern from its k-th character on matches the string from
\* position i on: a character or "." followed by "*" matches any number of
\* characters, one without matches exactly one.
RECURSIVE MatchAt(_, _, _, _)
MatchAt(pat, k, s, i) ==
    IF k > Len(pat) THEN TRUE
    ELSE IF k < Len(pat) /\ pat[k + 1] = "*"
         THEN \/ MatchAt(pat, k + 2, s, i)
              \/ /\ i <= Len(s)
                 /\ AtomMatches(pat[k], s[i])
                 /\ MatchAt(pat, k, s, i + 1)
         ELSE /\ i <= Len(s)
              /\ AtomMatches(pat[k], s[i])
              /\ MatchAt(pat, k + 1, s, i + 1)

\* re_search with an empty pattern treated as matching nothing.
re_search_nonempty(pat, s) ==
    pat # <<>> /\ \E i \in 1..(Len(s) + 1) : MatchAt(pat, 1, s, i)

\* re.compile(pat, re.IGNORECASE).search(s) is not None, for a pattern that
\* compiles.
re_search(pat, s) == \E i \in 1..(Len(s) + 1) : MatchAt(pat, 1, s, i)

\* Series.str.contains(pat, case=False, na=False) on one value: regex=True is
\* the default, so pat is compiled with re.IGNORECASE and searched for.
str_contains(s, pat) == re_search(pat, s)

\* The mask of the search step: name or company contains the query.
SearchMask(df, query) ==
    [i \in 1..Len(df) |->
        str_contains(df[i].name, query) \/ str_contains(df[i].company, query)]

\* The search step (the branch taken when query is non-empty): df[mask], or
\* the re.error the compilation of the query raises.
search(df, query) ==
    IF re_error(query)
    THEN [status |-> "re.error", input |-> df, out |-> <<>>]
    ELSE [status |-> "ok", input |-> df, out |-> BoolIndex(df, SearchMask(df, query))]

-----------------------------------------------------------------------------
(* Summary figures                                                         *)

RECURSIVE SumPrices(_)
SumPrices(df) == IF df = <<>> THEN 0 ELSE Head(df).price + SumPrices(Tail(df))

\* int(np.mean(df["price"])): the mean truncated to an integer (prices are
\* not negative).
MeanTruncated(df) == SumPrices(df) \div Len(df)

\* np.mean(df["price"]).round(2), in hundredths: the mean rounded to two
\* decimals, a tie going to the even neighbour.
MeanRounded2(df) ==
    LET n == 100 * SumPrices(df)
        q == n \div Len(df)
        r == n % Len(df)
    IN  IF 2 * r > Len(df) THEN q + 1
        ELSE IF 2 * r < Len(df) THEN q
        ELSE IF q % 2 = 0 THEN q ELSE q + 1

\* Series.unique(): the distinct values in order of first appearance.
RECURSIVE Unique(_)
Unique(values) ==
    IF values = <<>> THEN <<>>
    ELSE LET front == Unique(SubSeq(values, 1, Len(values) - 1))
             last == values[Len(values)]
         IN  IF \E i \in 1..Len(front) : front[i] = last THEN front
             ELSE Append(front, last)

Column(df, col) ==
    [i \in 1..Len(df) |->
        CASE col = "name" -> df[i].name
          [] col = "category" -> df[i].category
          [] col = "price" -> df[i].price]

MinOf(S) == CHOOSE x \in S : \A y \in S : x <= y

MaxOf(S) == CHOOSE x \in S : \A y \in S : x >= y

Range(s) == {s[i] : i \in 1..Len(s)}

-----------------------------------------------------------------------------
(* Bounds and input sets                                                   *)

\* The longest query handed to the search step on its own.
MaxQueryLen == 2

\* The longest frame handed to filter_data on its own.
MaxRecords == 2

\* Sequences over S of length at most n.
SeqsUpTo(S, n) == UNION {[1..k -> S] : k \in 0..n}

\* The texts typed into the search box of the page: nothing, blanks only, a
\* word with and without blanks around it, and punctuation.
Texts ==
    {<<>>, <<" ">>, <<"p">>, <<" ", "p", " ">>, <<"h", "p">>, <<".">>, <<"(">>}

\* The characters of the queries handed to the search step on its own, and
\* the queries of the specification's examples.
QueryChars == {"h", "p", "H", "e", "l", " ", ".", "(", "*", "["}

Queries == SeqsUpTo(QueryChars, MaxQueryLen) \cup {<<"d", "e", "l", "l">>}

\* The slider positions tried, among the integers from the lowest to the
\* highest price of the catalog.
PricePoints == {800, 30000, 70000}

\* The frames handed to filter_data on its own: one to MaxRecords rows over
\* small domains, names unique within a frame as in a catalog, with equal
\* prices, companies, dates and categories among the rows.  (A frame has the
\* five columns; the smallest one tried has one row.)
TestRows ==
    [name : {<<"a">>, <<"b">>, <<"c">>},
     price : {1, 2, 3},
     company : {<<"c">>},
     last_updated : {[year |-> 2025, month |-> 1, day |-> 1]},
     category : {<<"X">>, <<"Y">>}]

TestCatalogs ==
    {frame \in SeqsUpTo(TestRows, MaxRecords) :
        /\ frame # <<>>
        /\ \A i \in 1..Len(frame) : \A j \in 1..Len(frame) :
               frame[i].name = frame[j].name => i = j}

TestCategories == {<<"X">>, <<"Y">>}

TestBounds == {1, 2, 3}

\* The sort keys tried on filter_data on its own: the three the page offers,
\* two other columns of the frame, and a name that is no column.
TestSortKeys == {"price", "last_updated", "name", "company", "category", "rating"}

-----------------------------------------------------------------------------
(* State                                                                   *)

VARIABLES
    cache,           \* the value st.cache_data holds for load_data()
    df,              \* the frame the script (or the call) worked on, as it left it
    selected_cats,   \* the category multiselect / the categories argument
    price_sel,       \* the price slider / the price_range argument
    sort_by,         \* the "Sort By" selectbox / the sort_by argument
    ascending,       \* the "Ascending Order" toggle / the ascending argument
    query_text,      \* the text of the search box
    query,           \* the stripped text / the query of the search step
    selected,        \* the product selectbox of the details view
    filtered_df,     \* what filter_data returned
    result_df,       \* the frame the page shows
    status,          \* "ok", or the exception that ended the run or the call
    details,         \* the row of the details view (none when not rendered)
    total_products,  \* the "Total Products" metric
    avg_metric,      \* the "Average Price" metric of the sidebar
    avg_caption,     \* the average of the closing caption, in hundredths
    op               \* the operation that produced the state

vars == <<cache, df, selected_cats, price_sel, sort_by, ascending, query_text,
          query, selected, filtered_df, result_df, status, details,
          total_products, avg_metric, avg_caption, op>>

\* The value of avg_caption when the caption was not rendered.
NotRendered == 0 - 1

\* The options the sidebar and the details view offer for a frame.
CategoryOptions(frame) == Range(Unique(Column(frame, "category")))

PriceMin(frame) == MinOf(Range(Column(frame, "price")))

PriceMax(frame) == MaxOf(Range(Column(frame, "price")))

SortOptions == <<"price", "last_updated", "name">>

ProductOptions(frame) == Range(Unique(Column(frame, "name")))

\* df[df["name"] == selected].iloc[0]
DetailsRow(frame, name) ==
    LET i == CHOOSE k \in 1..Len(frame) :
                 frame[k].name = name /\ \A j \in 1..(k - 1) : frame[j].name # name
    IN  frame[i]

-----------------------------------------------------------------------------
(* The page: one run of the script per interaction                         *)

\* ResultStep with the search narrowing the filtered rows instead of reading
\* df.
ResultStep_SearchFiltered(f, q) ==
    IF q # <<>> THEN [search(f.out, q) EXCEPT !.input = f.input] ELSE f

\* The choice of result_df, given what filter_data returned: with a query,
\* the search step over df, the frame filter_data was given (not over
\* filtered_df); without one, filtered_df.
ResultStep(f, q) == IF q # <<>> THEN search(f.input, q) ELSE f

\* CountedFrame reading the filtered frame: the count following the filters.
CountedFrame_Filtered(frame, f) == f.out

\* The frame the "Total Products" metric counts: df.
CountedFrame(frame, f) == frame

\* One run of the script, top to bottom, with the widgets in the given
\* positions.  load_data() returns the cached frame; the sidebar metrics are
\* rendered before the search step, the details view and the caption after
\* it, so an exception in the search step leaves them out.
ScriptRun(cats, range, by, asc, text, sel) ==
    \E frame \in {cache}, q \in {strip(text)} :
    \E f \in filter_data(frame, cats, range, by, asc) :
    \E s \in {IF f.status = "ok" THEN ResultStep(f, q) ELSE f} :
        /\ cache' = cache
        /\ df' = s.input
        /\ selected_cats' = cats
        /\ price_sel' = range
        /\ sort_by' = by
        /\ ascending' = asc
        /\ query_text' = text
        /\ query' = q
        /\ selected' = sel
        /\ total_products' = Len(CountedFrame(frame, f))
        /\ avg_metric' = MeanTruncated(frame)
        /\ filtered_df' = f.out
        /\ result_df' = s.out
        /\ status' = s.status
        /\ details' = IF s.status = "ok" THEN <<DetailsRow(s.input, sel)>> ELSE <<>>
        /\ avg_caption' = IF s.status = "ok" THEN MeanRounded2(s.input) ELSE NotRendered
        /\ op' = "run"

\* The state after the first run: the cache filled by load_data(), every
\* widget at its default.
Init ==
    /\ DatesParse
    /\ cache = load_data
    /\ df = load_data
    /\ selected_cats = CategoryOptions(load_data)
    /\ price_sel = <<PriceMin(load_data), PriceMax(load_data)>>
    /\ sort_by = SortOptions[1]
    /\ ascending = TRUE
    /\ query_text = <<>>
    /\ query = <<>>
    /\ selected = load_data[1].name
    /\ total_products = Len(load_data)
    /\ avg_metric = MeanTruncated(load_data)
    /\ filtered_df \in
           {f.out : f \in filter_data(load_data, CategoryOptions(load_data),
                                      <<PriceMin(load_data), PriceMax(load_data)>>,
                                      SortOptions[1], TRUE)}
    /\ result_df = filtered_df
    /\ status = "ok"
    /\ details = <<load_data[1]>>
    /\ avg_caption = MeanRounded2(load_data)
    /\ op = "run"

SetCategories ==
    \E cats \in SUBSET CategoryOptions(cache) :
        ScriptRun(cats, price_sel, sort_by, ascending, query_text, selected)

SetPriceRange ==
    \E lo \in PricePoints, hi \in PricePoints :
        /\ PriceMin(cache) <= lo /\ lo <= hi /\ hi <= PriceMax(cache)
        /\ ScriptRun(selected_cats, <<lo, hi>>, sort_by, ascending, query_text, selected)

SetSortBy ==
    \E k \in 1..Len(SortOptions) :
        ScriptRun(selected_cats, price_sel, SortOptions[k], ascending, query_text, selected)

ToggleAscending ==
    ScriptRun(selected_cats, price_sel, sort_by, ~ascending, query_text, selected)

TypeQuery ==
    \E text \in Texts :
        ScriptRun(selected_cats, price_sel, sort_by, ascending, text, selected)

\* The "Search" button: its value is never read, a click only runs the script.
ClickSearch ==
    ScriptRun(selected_cats, price_sel, sort_by, ascending, query_text, selected)

SelectProduct ==
    \E name \in ProductOptions(cache) :
        ScriptRun(selected_cats, price_sel, sort_by, ascending, query_text, name)

Next ==
    \/ SetCategories
    \/ SetPriceRange
    \/ SetSortBy
    \/ ToggleAscending
    \/ TypeQuery
    \/ ClickSearch
    \/ SelectProduct

Spec == Init /\ [][Next]_vars

-----------------------------------------------------------------------------
(* filter_data on its own                                                  *)

FilterInit ==
    /\ cache = <<>>
    /\ df \in TestCatalogs
    /\ selected_cats = {}
    /\ price_sel = <<1, 1>>
    /\ sort_by = "price"
    /\ ascending = TRUE
    /\ query_text = <<>>
    /\ query = <<>>
    /\ selected = <<>>
    /\ filtered_df = <<>>
    /\ result_df = <<>>
    /\ status = "ok"
    /\ details = <<>>
    /\ total_products = 0
    /\ avg_metric = 0
    /\ avg_caption = NotRendered
    /\ op = "none"

\* A call filter_data(df, cats, (lo, hi), by, asc) with lo <= hi.
FilterCall ==
    /\ op = "none"
    /\ \E cats \in SUBSET TestCategories, lo \in TestBounds, hi \in TestBounds,
          by \in TestSortKeys, asc \in BOOLEAN :
        /\ lo <= hi
        /\ \E f \in filter_data(df, cats, <<lo, hi>>, by, asc) :
               /\ df' = f.input
               /\ selected_cats' = cats
               /\ price_sel' = <<lo, hi>>
               /\ sort_by' = by
               /\ ascending' = asc
               /\ filtered_df' = f.out
               /\ status' = f.status
               /\ op' = "filter_data"
    /\ UNCHANGED <<cache, query_text, query, selected, result_df, details,
                       total_products, avg_metric, avg_caption>>

FilterNext == FilterCall

FilterSpec == FilterInit /\ [][FilterNext]_vars

-----------------------------------------------------------------------------
(* The search step on its own                                              *)

SearchInit ==
    /\ DatesParse
    /\ cache = <<>>
    /\ df = load_data
    /\ selected_cats = {}
    /\ price_sel = <<PriceMin(load_data), PriceMax(load_data)>>
    /\ sort_by = "price"
    /\ ascending = TRUE
    /\ query_text = <<>>
    /\ query = <<>>
    /\ selected = <<>>
    /\ filtered_df = <<>>
    /\ result_df = <<>>
    /\ status = "ok"
    /\ details = <<>>
    /\ total_products = 0
    /\ avg_metric = 0
    /\ avg_caption = NotRendered
    /\ op = "none"

\* The search step applied to the catalog and a query.
SearchCall ==
    /\ op = "none"
    /\ \E q \in Queries :
           LET s == search(df, q)
           IN  /\ df' = s.input
               /\ query' = q
               /\ result_df' = s.out
               /\ status' = s.status
               /\ op' = "search"
    /\ UNCHANGED <<cache, selected_cats, price_sel, sort_by, ascending,
                   query_text, selected, filtered_df, details,
                   total_products, avg_metric, avg_caption>>

SearchNext == SearchCall

SearchSpec == SearchInit /\ [][SearchNext]_vars

-----------------------------------------------------------------------------
(* Properties                                                              *)

\* The number of times a row occurs in a frame.
Occurrences(frame, row) == Cardinality({i \in 1..Len(frame) : frame[i] = row})

\* Whether a row satisfies the filter criteria of the state.
MeetsCriteria(row) ==
    /\ row.category \in selected_cats
    /\ price_sel[1] <= row.price
    /\ row.price <= price_sel[2]

\* C1: when filter_data returns, its result holds exactly the rows of the
\* frame whose category is in the requested set and whose price lies in the
\* closed range, each as often as the frame holds it, and no other row; with
\* no category requested the result is empty.
C1_FilterKeepsExactlyMatching ==
    (op = "filter_data" /\ status = "ok") =>
        /\ \A row \in Range(df) \cup Range(filtered_df) :
               Occurrences(filtered_df, row) =
                   IF MeetsCriteria(row) THEN Occurrences(df, row) ELSE 0
        /\ selected_cats = {} => filtered_df = <<>>

\* C1 witness: a call on a frame of two rows that kept the row whose price
\* equals the lower bound and dropped the other one.
C1_Witness ==
    /\ op = "filter_data" /\ status = "ok"
    /\ Len(df) = 2 /\ Len(filtered_df) = 1
    /\ price_sel[1] < price_sel[2]
    /\ filtered_df[1].price = price_sel[1]
    /\ \E i \in 1..2 : df[i].price = price_sel[2] /\ df[i].category \notin selected_cats

\* The rows of a frame in sorted order with equal values kept in their
\* original relative order: each row is put after every row already placed
\* that it does not have to precede.
RECURSIVE StableSort(_, _, _)
StableSort(frame, by, asc) ==
    IF frame = <<>> THEN <<>>
    ELSE LET front == StableSort(SubSeq(frame, 1, Len(frame) - 1), by, asc)
             x == frame[Len(frame)]
             p == Cardinality({j \in 1..Len(front) : ~Precedes(x, front[j], by, asc)})
         IN  SubSeq(front, 1, p) \o <<x>> \o SubSeq(front, p + 1, Len(front))

\* C2: the result of filter_data is the stable sort of the retained rows by
\* the sort key in the requested direction (rows with equal key values in
\* their input order).
C2_ResultIsStableSort ==
    (op = "filter_data" /\ status = "ok") =>
        filtered_df =
            StableSort(BoolIndex(df, FilterMask(df, selected_cats, price_sel)),
                       sort_by, ascending)

\* Whether string s contains string q as a literal substring, letter case
\* ignored.
ContainsIgnoringCase(s, q) ==
    \E start \in 0..(Len(s) - Len(q)) :
        \A j \in 1..Len(q) : Lower(s[start + j]) = Lower(q[j])

LiteralMatch(row) ==
    ContainsIgnoringCase(row.name, query) \/ ContainsIgnoringCase(row.company, query)

\* C3: a search that returns gives exactly the rows whose name or company
\* contains the query as a literal substring, letter case ignored, in catalog
\* order.
C3_SearchIsLiteralSubstring ==
    (op = "search" /\ status = "ok") => result_df = SelectSeq(df, LiteralMatch)

\* C4: the search step applied to the empty string returns every row it was
\* given, in the same order.
C4_EmptyQueryMatchesAll ==
    (op = "search" /\ query = <<>>) => (status = "ok" /\ result_df = load_data)

\* C4 witness: the search step has run on the empty string over the seven
\* rows of the catalog.
C4_Witness ==
    op = "search" /\ query = <<>> /\ Len(df) = 7 /\ Len(result_df) = 7

\* The position in the flat catalog of the i-th item of the c-th category.
RECURSIVE ItemsBefore(_)
ItemsBefore(c) == IF c = 1 THEN 0 ELSE ItemsBefore(c - 1) + Len(PRODUCTS[c - 1].items)

\* C5: the loaded catalog holds one row per (category, item) pair of
\* PRODUCTS, at the pair's place in insertion order, with the item's name,
\* price and company, its date, and the enclosing category's name; for the
\* sample data these are 7 rows, Laptop, Smartphone, Earbuds first and
\* Keyboard, Mouse last.
C5_LoadDataFlattensInOrder ==
    /\ Len(cache) = ItemsBefore(Len(PRODUCTS) + 1)
    /\ \A c \in 1..Len(PRODUCTS) : \A i \in 1..Len(PRODUCTS[c].items) :
           LET row == cache[ItemsBefore(c) + i]
               item == PRODUCTS[c].items[i].details
           IN  /\ row.name = item.name
               /\ row.price = item.price
               /\ row.company = item.company
               /\ row.category = PRODUCTS[c].key
               /\ row.last_updated.year = Number(SubSeq(item.last_updated, 1, 4))
               /\ row.last_updated.month = Number(SubSeq(item.last_updated, 6, 7))
               /\ row.last_updated.day = Number(SubSeq(item.last_updated, 9, 10))
    /\ Len(cache) = 7
    /\ <<cache[1].name[1], cache[2].name[1], cache[3].name[1]>> = <<"L", "S", "E">>
    /\ <<cache[6].name[1], cache[7].name[1]>> = <<"K", "M">>
    /\ cache[1].last_updated = [year |-> 2025, month |-> 10, day |-> 10]
    /\ df = cache

\* C5 witness: the page has run again on the loaded catalog, whose fifth row
\* is the second item of the second category.
C5_Witness ==
    /\ op = "run" /\ query_text # <<>>
    /\ df[5].name = PRODUCTS[2].items[2].key
    /\ df[5].category = PRODUCTS[2].key

\* Whether the value of each row in the sort column is in the requested
\* direction relative to the row before it.
InDirection(frame, by, asc) ==
    \A i \in 1..(Len(frame) - 1) : ~Precedes(frame[i + 1], frame[i], by, asc)

\* C6, as stated: a call with a sort key other than price, last_updated and
\* name fails and returns no result.
C6_OtherKeysFail ==
    (op = "filter_data" /\ sort_by \notin {"price", "last_updated", "name"}) =>
        (status # "ok" /\ filtered_df = <<>>)

\* C6, amended: a call with a sort key that names no column of the frame
\* fails with KeyError and returns no result; a call with a key that names
\* any column, company and category included, returns the retained rows
\* ordered by that column.
C6_UnknownColumnFails ==
    op = "filter_data" =>
        /\ sort_by \notin Columns => (status = "KeyError" /\ filtered_df = <<>>)
        /\ sort_by \in Columns =>
               (status = "ok" /\ InDirection(filtered_df, sort_by, ascending))

\* C6 witness: a call with a key that is no column, on a frame with a row
\* that meets the criteria, has failed.
C6_Witness ==
    /\ op = "filter_data" /\ sort_by = "rating" /\ status = "KeyError"
    /\ \E i \in 1..Len(df) : MeetsCriteria(df[i])

\* C7: no run of the page ends in an error, whatever the text of the search
\* box is.
C7_SearchNeverFails == op = "run" => status = "ok"

\* C8: the catalog is never changed: the cached frame, which the next
\* load_data() returns, and the frame the script worked on, as filter_data
\* and the search step left it, both equal the catalog first loaded.
C8_CatalogImmutable == cache = load_data /\ df = load_data

\* C8 witness: a run that sorted all rows by name, descending, and searched
\* for "p" with another product selected.
C8_Witness ==
    /\ status = "ok" /\ query = <<"p">>
    /\ sort_by = "name" /\ ~ascending
    /\ Len(filtered_df) = 7 /\ filtered_df # df
    /\ Len(result_df) = 4
    /\ selected # load_data[1].name

\* The place of a row in the catalog.
CatalogPosition(row) == CHOOSE i \in 1..Len(load_data) : load_data[i] = row

\* C9: the stripped text of the search box decides what a run shows: when it
\* is not empty, the result of the search step on the full catalog, in
\* catalog order, whatever the filter settings are; when it is empty, what
\* filter_data returns for the filter settings.
C9_SearchOverridesFilter ==
    /\ query = strip(query_text)
    /\ filtered_df \in
           {f.out : f \in filter_data(load_data, selected_cats, price_sel, sort_by, ascending)}
    /\ (query # <<>> /\ status = "ok") =>
           /\ result_df = search(load_data, query).out
           /\ \A k \in 1..Len(result_df) : result_df[k] \in Range(load_data)
           /\ \A k \in 1..(Len(result_df) - 1) :
                  CatalogPosition(result_df[k]) < CatalogPosition(result_df[k + 1])
    /\ query = <<>> => (status = "ok" /\ result_df = filtered_df)

\* C9 witness: with no category selected the filter keeps nothing, and the
\* run shows the four rows the query "p" finds in the catalog.
C9_Witness ==
    /\ status = "ok" /\ query = <<"p">> /\ query_text = <<" ", "p", " ">>
    /\ selected_cats = {} /\ filtered_df = <<>>
    /\ Len(result_df) = 4

\* Whether h is the quotient total / count rounded to the nearest integer.
IsRounded(h, total, count) ==
    LET d == 2 * (h * count - total) IN d <= count /\ 0 - d <= count

\* C10, as stated: the count is the catalog's size and every average shown
\* is the mean of the catalog's prices rounded to two decimals.
C10_AveragesRoundedToCents ==
    /\ total_products = Len(load_data)
    /\ IsRounded(100 * avg_metric, 100 * SumPrices(load_data), Len(load_data))
    /\ avg_caption # NotRendered =>
           IsRounded(avg_caption, 100 * SumPrices(load_data), Len(load_data))

\* C10, amended: whatever the filters and the query are, the count is the
\* catalog's size (7), the sidebar's average is the mean of the catalog's
\* prices truncated to an integer (29214), and the caption's average, shown
\* by every run that no exception ends, is that mean rounded to two decimals
\* (29214.29).
C10_SummaryOverFullCatalog ==
    /\ total_products = Len(load_data) /\ total_products = 7
    /\ avg_metric * Len(load_data) <= SumPrices(load_data)
    /\ SumPrices(load_data) < (avg_metric + 1) * Len(load_data)
    /\ avg_metric = 29214
    /\ status = "ok" =>
           /\ IsRounded(avg_caption, 100 * SumPrices(load_data), Len(load_data))
           /\ avg_caption = 2921429
    /\ status # "ok" => avg_caption = NotRendered

\* C10 witness: a run whose filters keep a single row and whose query is
\* empty.
C10_Witness ==
    /\ op = "run" /\ status = "ok" /\ query = <<>>
    /\ Len(result_df) = 1
    /\ Cardinality(selected_cats) = 1

====
